---- MODULE Spec2Model ----
(***************************************************************************)
(* A model of arxiv-tools (src/arxiv-tools/src/lib.rs): the query          *)
(* expression builder (encode, the QueryParams factories and combinators,  *)
(* the ArXiv request and build_query) and the feed parser (parse_xml).     *)
(*                                                                         *)
(* A Rust String is modelled as a sequence of one-character strings, so    *)
(* that encoding, joining and replacing are computed character by          *)
(* character as the code computes them.                                    *)
(***************************************************************************)
EXTENDS Naturals, Sequences, FiniteSets

VARIABLES
    text,       \* SpecTerm: the user text handed to a leaf factory
    args,       \* SpecExpr: the Vec<QueryParams> handed to a combinator
    q,          \* the QueryParams a factory or combinator returned last
    arxiv,      \* SpecRequest: the ArXiv struct
    calls,      \* SpecRequest: the setter calls made on arxiv, in call order, a call
                \* superseded by a later call of the same setter removed
    url,        \* SpecRequest: the String build_query returned just now
    fetches,    \* query: the GET requests made, each with its URL and its outcome
    op,         \* the name of the operation called last
    flags,      \* parse_xml: the in_* context flags
    res,        \* parse_xml: the Paper being accumulated
    responses,  \* parse_xml: the Vec<Paper> of sealed Papers
    returned,   \* parse_xml: TRUE once the loop has ended and responses is returned
    panicked,   \* TRUE once a panic! or an unwrap of an Err has ended the call
    open,       \* the feed: names of the elements open at the reader's position
    feed,       \* the feed: what the reader has delivered so far
    alone,      \* the flags and Paper of a parse of the current entry alone
    pair        \* SpecPair: two calls of parse_xml in progress, their stack frames
                \* and what they returned

queryVars == <<text, args, q, arxiv, calls, url, op, fetches>>
parseVars == <<flags, res, responses, returned, panicked, open, feed, alone, pair>>
vars ==
    <<text, args, q, arxiv, calls, url, op, fetches,
      flags, res, responses, returned, panicked, open, feed, alone, pair>>

\* Option<T>
None == <<>>
Some(v) == <<v>>

\* ------------------------------------------------------------------------
\* Strings
\* ------------------------------------------------------------------------

Digits == <<"0", "1", "2", "3", "4", "5", "6", "7", "8", "9">>

Letters ==
    {"a", "b", "c", "d", "e", "f", "g", "h", "i", "j", "k", "l", "m",
     "n", "o", "p", "q", "r", "s", "t", "u", "v", "w", "x", "y", "z",
     "A", "B", "C", "D", "E", "F", "G", "H", "I", "J", "K", "L", "M",
     "N", "O", "P", "Q", "R", "S", "T", "U", "V", "W", "X", "Y", "Z"}

\* The complement of percent_encoding::NON_ALPHANUMERIC: the ASCII letters
\* and digits, which utf8_percent_encode leaves as they are.
AlphaNum == Letters \cup {Digits[i] : i \in 1..10}

\* The two hexadecimal digits of the ASCII code of a non-alphanumeric
\* character, as utf8_percent_encode writes them (upper case).
HexOf(c) ==
    CASE c = " "  -> <<"2", "0">>
    [] c = "\"" -> <<"2", "2">>
    [] c = "%"  -> <<"2", "5">>
    [] c = "&"  -> <<"2", "6">>
    [] c = "("  -> <<"2", "8">>
    [] c = ")"  -> <<"2", "9">>
    [] c = "+"  -> <<"2", "B">>
    [] c = "."  -> <<"2", "E">>
    [] c = ":"  -> <<"3", "A">>
    [] c = "="  -> <<"3", "D">>
    [] c = "["  -> <<"5", "B">>
    [] c = "]"  -> <<"5", "D">>

\* utf8_percent_encode with an encode set that leaves + alone
RECURSIVE utf8_percent_encode_keeping_plus(_)
utf8_percent_encode_keeping_plus(s) ==
    IF s = <<>> THEN <<>>
    ELSE (IF Head(s) \in AlphaNum \cup {"+"} THEN <<Head(s)>>
          ELSE <<"%">> \o HexOf(Head(s)))
         \o utf8_percent_encode_keeping_plus(Tail(s))

RECURSIVE utf8_percent_encode(_)
utf8_percent_encode(s) ==
    IF s = <<>> THEN <<>>
    ELSE (IF Head(s) \in AlphaNum THEN <<Head(s)>>
          ELSE <<"%">> \o HexOf(Head(s)))
         \o utf8_percent_encode(Tail(s))

IsPrefix(p, s) == Len(p) <= Len(s) /\ SubSeq(s, 1, Len(p)) = p

\* pat occurs in str at position at
MatchAt(str, at, pat) ==
    /\ at + Len(pat) <= Len(str) + 1
    /\ \A k \in 1..Len(pat) : str[at + k - 1] = pat[k]

\* The first position at which needle occurs in hay, 0 when it does not occur.
Find(hay, needle) ==
    LET hits == {h \in 1..Len(hay) : MatchAt(hay, h, needle)}
    IN  IF hits = {} THEN 0 ELSE CHOOSE h \in hits : \A g \in hits : h <= g

\* str::replace: every non-overlapping match of pat, from the left. Each
\* step copies the text before the leftmost match and goes on after it.
RECURSIVE replace(_, _, _)
replace(s, pat, to) ==
    IF Find(s, pat) = 0 THEN s
    ELSE SubSeq(s, 1, Find(s, pat) - 1) \o to
         \o replace(SubSeq(s, Find(s, pat) + Len(pat), Len(s)), pat, to)

encode(s) == replace(utf8_percent_encode(s), <<"%", "2", "0">>, <<"+">>)

\* ------------------------------------------------------------------------
\* Category
\* ------------------------------------------------------------------------

Category == {"CsAi", "CsCl", "CsLg", "CsGt", "CsCv", "CsCr", "CsCc", "CsCe", "CsCy", "CsDs", "CsDm", "CsDc", "CsEt", "CsFl", "CsGl", "CsGr", "CsAr", "CsHc", "CsIr"}

CategoryToString(c) ==
    CASE c = "CsAi" -> <<"c", "s", ".", "A", "I">>
    [] c = "CsCl" -> <<"c", "s", ".", "C", "L">>
    [] c = "CsLg" -> <<"c", "s", ".", "L", "G">>
    [] c = "CsGt" -> <<"c", "s", ".", "G", "T">>
    [] c = "CsCv" -> <<"c", "s", ".", "C", "V">>
    [] c = "CsCr" -> <<"c", "s", ".", "C", "R">>
    [] c = "CsCc" -> <<"c", "s", ".", "C", "C">>
    [] c = "CsCe" -> <<"c", "s", ".", "C", "E">>
    [] c = "CsCy" -> <<"c", "s", ".", "C", "Y">>
    [] c = "CsDs" -> <<"c", "s", ".", "D", "S">>
    [] c = "CsDm" -> <<"c", "s", ".", "D", "M">>
    [] c = "CsDc" -> <<"c", "s", ".", "D", "C">>
    [] c = "CsEt" -> <<"c", "s", ".", "E", "T">>
    [] c = "CsFl" -> <<"c", "s", ".", "F", "L">>
    [] c = "CsGl" -> <<"c", "s", ".", "G", "L">>
    [] c = "CsGr" -> <<"c", "s", ".", "G", "R">>
    [] c = "CsAr" -> <<"c", "s", ".", "A", "R">>
    [] c = "CsHc" -> <<"c", "s", ".", "H", "C">>
    [] c = "CsIr" -> <<"c", "s", ".", "I", "R">>

\* ------------------------------------------------------------------------
\* QueryParams: a tagged, already rendered String
\* ------------------------------------------------------------------------

title(arg) ==
    [tag |-> "Title", arg |-> encode(<<"t", "i", ":", "\"">> \o arg \o <<"\"">>)]

author(arg) ==
    [tag |-> "Author", arg |-> encode(<<"a", "u", ":", "\"">> \o arg \o <<"\"">>)]

abstract_text(arg) ==
    [tag |-> "Abstract", arg |-> encode(<<"a", "b", "s", ":", "\"">> \o arg \o <<"\"">>)]

comment(arg) ==
    [tag |-> "Comment", arg |-> encode(<<"c", "o", ":", "\"">> \o arg \o <<"\"">>)]

journal_ref(arg) ==
    [tag |-> "JournalRef", arg |-> encode(<<"j", "r", ":", "\"">> \o arg \o <<"\"">>)]

report_number(arg) ==
    [tag |-> "ReportNumber", arg |-> encode(<<"r", "n", ":", "\"">> \o arg \o <<"\"">>)]

id(arg) ==
    [tag |-> "Id", arg |-> encode(<<"i", "d", ":", "\"">> \o arg \o <<"\"">>)]

all(arg) ==
    [tag |-> "All", arg |-> encode(<<"a", "l", "l", ":", "\"">> \o arg \o <<"\"">>)]

subject_category(c) ==
    [tag |-> "SubjectCategory",
     arg |-> encode(<<"c", "a", "t", ":", "\"">> \o CategoryToString(c) \o <<"\"">>)]

to_string(p) == p.arg

\* [String]::join
RECURSIVE join(_, _)
join(strs, sep) ==
    IF strs = <<>> THEN <<>>
    ELSE IF Len(strs) = 1 THEN strs[1]
    ELSE strs[1] \o sep \o join(Tail(strs), sep)

MapToString(list) == [i \in 1..Len(list) |-> to_string(list[i])]

and(list) ==
    [tag |-> "And", arg |-> join(MapToString(list), encode(<<" ", "A", "N", "D", " ">>))]

or(list) ==
    [tag |-> "Or", arg |-> join(MapToString(list), encode(<<" ", "O", "R", " ">>))]

\* and_not joining with the token of and
and_not_with_and_token(list) ==
    [tag |-> "Or", arg |-> join(MapToString(list), encode(<<" ", "A", "N", "D", " ">>))]

and_not(list) ==
    [tag |-> "Or",
     arg |-> join(MapToString(list), encode(<<" ", "A", "N", "D", "N", "O", "T", " ">>))]

\* group writing its parentheses without encoding them
group_with_raw_parentheses(list) ==
    [tag |-> "Group", arg |-> join(<<<<"(">>>> \o MapToString(list) \o <<<<")">>>>, <<>>)]

group(list) ==
    [tag |-> "Group",
     arg |-> join(<<encode(<<"(">>)>> \o MapToString(list) \o <<encode(<<")">>)>>, <<>>)]

\* ------------------------------------------------------------------------
\* SortBy, SortOrder
\* ------------------------------------------------------------------------

SortBy == {"Relevance", "LastUpdatedDate", "SubmittedDate"}

SortByToString(s) ==
    CASE s = "Relevance" -> <<"r", "e", "l", "e", "v", "a", "n", "c", "e">>
    [] s = "LastUpdatedDate" -> <<"l", "a", "s", "t", "U", "p", "d", "a", "t", "e", "d", "D", "a", "t", "e">>
    [] s = "SubmittedDate" -> <<"s", "u", "b", "m", "i", "t", "t", "e", "d", "D", "a", "t", "e">>

SortOrder == {"Ascending", "Descending"}

SortOrderToString(o) ==
    CASE o = "Ascending" -> <<"a", "s", "c", "e", "n", "d", "i", "n", "g">>
    [] o = "Descending" -> <<"d", "e", "s", "c", "e", "n", "d", "i", "n", "g">>

\* ------------------------------------------------------------------------
\* ArXiv: the request
\* ------------------------------------------------------------------------

from_args(a) ==
    [args |-> a, submitted_date |-> None, start |-> None, max_resutls |-> None,
     sort_by |-> None, sort_order |-> None]

submitted_date(self, from, to) ==
    [self EXCEPT !.submitted_date =
        Some(<<"&", "s", "u", "b", "m", "i", "t", "t", "e", "d", "D", "a", "t", "e", ":", "[">> \o from \o <<"+", "T", "O", "+">> \o to \o <<"]">>)]

\* start keeping the value of its first call
start_keeping_first(self, n) ==
    IF self.start = None THEN [self EXCEPT !.start = Some(n)] ELSE self

start(self, n) == [self EXCEPT !.start = Some(n)]

max_results(self, n) == [self EXCEPT !.max_resutls = Some(n)]

sort_by(self, s) == [self EXCEPT !.sort_by = Some(s)]

sort_order(self, o) == [self EXCEPT !.sort_order = Some(o)]

\* format!("{}", n) of a u64: its decimal digits
RECURSIVE u64_to_string(_)
u64_to_string(n) ==
    IF n < 10 THEN <<Digits[n + 1]>>
    ELSE u64_to_string(n \div 10) \o <<Digits[(n % 10) + 1]>>

BaseUrl ==
    <<"h", "t", "t", "p", ":", "/", "/",
      "e", "x", "p", "o", "r", "t", ".", "a", "r", "x", "i", "v", ".", "o", "r", "g", "/",
      "a", "p", "i", "/", "q", "u", "e", "r", "y", "?",
      "s", "e", "a", "r", "c", "h", "_", "q", "u", "e", "r", "y", "=">>

\* if let Some(v) = &self.field { query.push_str(...) }: the text pushed
DatePiece(opt) == IF opt = None THEN <<>> ELSE opt[1]

StartPiece(opt) ==
    IF opt = None THEN <<>>
    ELSE <<"&", "s", "t", "a", "r", "t", "=">> \o u64_to_string(opt[1])

MaxResultsPiece(opt) ==
    IF opt = None THEN <<>>
    ELSE <<"&", "m", "a", "x", "_", "r", "e", "s", "u", "l", "t", "s", "=">> \o u64_to_string(opt[1])

SortByPiece(opt) ==
    IF opt = None THEN <<>>
    ELSE <<"&", "s", "o", "r", "t", "B", "y", "=">> \o SortByToString(opt[1])

SortOrderPiece(opt) ==
    IF opt = None THEN <<>>
    ELSE <<"&", "s", "o", "r", "t", "O", "r", "d", "e", "r", "=">> \o SortOrderToString(opt[1])

\* build_query pushing the sort order before the sort key
build_query_sort_order_first(self) ==
    BaseUrl
    \o replace(to_string(self.args), <<"%", "2", "0">>, <<"+">>)
    \o DatePiece(self.submitted_date)
    \o StartPiece(self.start)
    \o MaxResultsPiece(self.max_resutls)
    \o SortOrderPiece(self.sort_order)
    \o SortByPiece(self.sort_by)

build_query(self) ==
    BaseUrl
    \o replace(to_string(self.args), <<"%", "2", "0">>, <<"+">>)
    \o DatePiece(self.submitted_date)
    \o StartPiece(self.start)
    \o MaxResultsPiece(self.max_resutls)
    \o SortByPiece(self.sort_by)
    \o SortOrderPiece(self.sort_order)

\* ------------------------------------------------------------------------
\* Paper and the events of quick_xml's reader
\* ------------------------------------------------------------------------

PaperDefault ==
    [id |-> <<>>, title |-> <<>>, authors |-> <<>>, abstract_text |-> <<>>,
     published |-> <<>>, updated |-> <<>>, doi |-> <<>>, comment |-> <<>>,
     journal_ref |-> <<>>, pdf_url |-> <<>>, primary_category |-> <<>>,
     categories |-> <<>>]

\* The flags as parse_xml declares them
FlagsDefault ==
    [in_entry |-> FALSE, in_id |-> FALSE, in_title |-> FALSE, in_author |-> FALSE,
     in_name |-> FALSE, in_abstract |-> FALSE, in_published |-> FALSE,
     in_updated |-> FALSE, in_comment |-> FALSE, in_journal_ref |-> FALSE]

\* The attributes of an element the parser reads: each absent or a value
NoAttrs == [title |-> None, href |-> None, term |-> None]

\* The text of a Text event is a sequence of characters and entity
\* references, as written in the document. BytesText::unescape replaces
\* each entity reference by its character.
UnescapeChar(c) ==
    CASE c = "&amp;" -> "&"
    [] c = "&lt;" -> "<"
    [] c = "&gt;" -> ">"
    [] OTHER -> c

unescape(t) == [i \in 1..Len(t) |-> UnescapeChar(t[i])]

\* char::is_whitespace, for the characters of the model
Whitespace == {" ", "\n", "\t"}

RECURSIVE trim_start(_)
trim_start(s) ==
    IF s # <<>> /\ Head(s) \in Whitespace THEN trim_start(Tail(s)) ELSE s

RECURSIVE trim_end(_)
trim_end(s) ==
    IF s # <<>> /\ s[Len(s)] \in Whitespace
    THEN trim_end(SubSeq(s, 1, Len(s) - 1)) ELSE s

\* Variant that trims the start only
trim_keeping_end(s) == trim_start(s)

trim(s) == trim_end(trim_start(s))

\* The state of the loop of parse_xml
Parser(f, r, rs) == [flags |-> f, res |-> r, responses |-> rs]

\* A link's attributes: title decides the kind, href gives the value
\* Variant whose doi branch writes pdf_url
LinkAttrs_doi_into_pdf_url(r, attrs) ==
    LET is_pdf == attrs.title = Some("pdf")
        is_doi == attrs.title = Some("doi")
    IN  IF attrs.href = None THEN r
        ELSE IF is_pdf THEN [r EXCEPT !.pdf_url = attrs.href[1]]
        ELSE IF is_doi THEN [r EXCEPT !.pdf_url = attrs.href[1]]
        ELSE r

LinkAttrs(r, attrs) ==
    LET is_pdf == attrs.title = Some("pdf")
        is_doi == attrs.title = Some("doi")
    IN  IF attrs.href = None THEN r
        ELSE IF is_pdf THEN [r EXCEPT !.pdf_url = attrs.href[1]]
        ELSE IF is_doi THEN [r EXCEPT !.doi = attrs.href[1]]
        ELSE r

PrimaryCategoryAttrs(r, attrs) ==
    IF attrs.term = None THEN r ELSE [r EXCEPT !.primary_category = attrs.term[1]]

\* Variant that drops a term the Paper already lists
CategoryAttrs_without_repetition(r, attrs) ==
    IF attrs.term = None THEN r
    ELSE IF \E i \in 1..Len(r.categories) : r.categories[i] = attrs.term[1] THEN r
    ELSE [r EXCEPT !.categories = Append(@, attrs.term[1])]

CategoryAttrs(r, attrs) ==
    IF attrs.term = None THEN r
    ELSE [r EXCEPT !.categories = Append(@, attrs.term[1])]

\* Ok(Event::Start(ref e))
OnStart(st, name, attrs) ==
    IF name = "entry"
    THEN Parser([st.flags EXCEPT !.in_entry = TRUE], PaperDefault, st.responses)
    ELSE IF name = "id"
    THEN [st EXCEPT !.flags.in_id = TRUE]
    ELSE IF name = "title"
    THEN [st EXCEPT !.flags.in_title = TRUE]
    ELSE IF name = "author"
    THEN [st EXCEPT !.flags.in_author = TRUE]
    ELSE IF name = "name"
    THEN (IF st.flags.in_author THEN [st EXCEPT !.flags.in_name = TRUE] ELSE st)
    ELSE IF name = "summary"
    THEN [st EXCEPT !.flags.in_abstract = TRUE]
    ELSE IF name = "published"
    THEN [st EXCEPT !.flags.in_published = TRUE]
    ELSE IF name = "updated"
    THEN [st EXCEPT !.flags.in_updated = TRUE]
    ELSE IF name = "arxiv:comment"
    THEN [st EXCEPT !.flags.in_comment = TRUE]
    ELSE IF name = "arxiv:journal_ref"
    THEN [st EXCEPT !.flags.in_journal_ref = TRUE]
    ELSE IF name = "link" /\ st.flags.in_entry
    THEN [st EXCEPT !.res = LinkAttrs(@, attrs)]
    ELSE IF name = "arxiv:primary_category"
    THEN [st EXCEPT !.res = PrimaryCategoryAttrs(@, attrs)]
    ELSE IF name = "category"
    THEN [st EXCEPT !.res = CategoryAttrs(@, attrs)]
    ELSE st

\* Variant that puts the Paper in front of the earlier ones
push_at_front(rs, r) == <<r>> \o rs

\* Variant that pushes the Paper twice
push_twice(rs, r) == Append(Append(rs, r), r)

\* responses.push(res.clone())
push(rs, r) == Append(rs, r)

\* Ok(Event::End(ref e))
OnEnd(st, name) ==
    IF name = "entry"
    THEN Parser([st.flags EXCEPT !.in_entry = FALSE],
                PaperDefault,
                push(st.responses, st.res))
    ELSE IF name = "id"
    THEN [st EXCEPT !.flags.in_id = FALSE]
    ELSE IF name = "title"
    THEN [st EXCEPT !.flags.in_title = FALSE]
    ELSE IF name = "author"
    THEN [st EXCEPT !.flags.in_author = FALSE]
    ELSE IF name = "name"
    THEN (IF st.flags.in_author THEN [st EXCEPT !.flags.in_name = FALSE] ELSE st)
    ELSE IF name = "summary"
    THEN [st EXCEPT !.flags.in_abstract = FALSE]
    ELSE IF name = "published"
    THEN [st EXCEPT !.flags.in_published = FALSE]
    ELSE IF name = "updated"
    THEN [st EXCEPT !.flags.in_updated = FALSE]
    ELSE IF name = "arxiv:comment"
    THEN [st EXCEPT !.flags.in_comment = FALSE]
    ELSE IF name = "arxiv:journal_ref"
    THEN [st EXCEPT !.flags.in_journal_ref = TRUE]
    ELSE st

\* Ok(Event::Text(e))
OnText(st, t) ==
    IF ~st.flags.in_entry THEN st
    ELSE IF st.flags.in_id
    THEN [st EXCEPT !.res.id = unescape(t)]
    ELSE IF st.flags.in_title
    THEN [st EXCEPT !.res.title = unescape(t)]
    ELSE IF st.flags.in_author /\ st.flags.in_name
    THEN [st EXCEPT !.res.authors = Append(@, unescape(t))]
    ELSE IF st.flags.in_abstract
    THEN [st EXCEPT !.res.abstract_text = replace(trim(unescape(t)), <<"\n">>, <<>>)]
    ELSE IF st.flags.in_published
    THEN [st EXCEPT !.res.published = unescape(t)]
    ELSE IF st.flags.in_updated
    THEN [st EXCEPT !.res.updated = unescape(t)]
    ELSE IF st.flags.in_comment
    THEN [st EXCEPT !.res.comment = Append(@, unescape(t))]
    ELSE IF st.flags.in_journal_ref
    THEN [st EXCEPT !.res.journal_ref = unescape(t)]
    ELSE st

\* e.unescape() is Ok unless the text refers to an entity that is not one
\* of the predefined ones
UndeclaredEntity == "&nbsp;"
unescapes(t) == \A i \in 1..Len(t) : t[i] # UndeclaredEntity

\* The branches of the Text arm, each of which calls e.unescape().unwrap()
Routed(f) ==
    \/ f.in_id
    \/ f.in_title
    \/ f.in_author /\ f.in_name
    \/ f.in_abstract
    \/ f.in_published
    \/ f.in_updated
    \/ f.in_comment
    \/ f.in_journal_ref

\* The Text arm panics when the branch it takes unwraps an Err
OnTextPanics(st, t) == st.flags.in_entry /\ Routed(st.flags) /\ ~unescapes(t)

\* The Err arm ending the loop as Eof does
ErrArm_break == "break"

\* Err(e) => panic!("Error at position {}: {:?}", ...)
ErrArm == "panic"

\* Ok(Event::Empty(ref e))
OnEmpty(st, name, attrs) ==
    IF name = "link" /\ st.flags.in_entry
    THEN [st EXCEPT !.res = LinkAttrs(@, attrs)]
    ELSE IF name = "arxiv:primary_category" /\ st.flags.in_entry
    THEN [st EXCEPT !.res = PrimaryCategoryAttrs(@, attrs)]
    ELSE IF name = "category" /\ st.flags.in_entry
    THEN [st EXCEPT !.res = CategoryAttrs(@, attrs)]
    ELSE st

\* ------------------------------------------------------------------------
\* Bounds and input sets of the query specifications
\* ------------------------------------------------------------------------

MaxTextLen == 3
MaxArgs == 3

SeqsUpTo(S, n) == UNION {[1..k -> S] : k \in 0..n}

\* Printable ASCII characters a user text is drawn from: a letter, the
\* space, and the characters the encoding itself writes.
TextAlphabet == {"a", " ", "+", "%", "2", "0"}

Texts == SeqsUpTo(TextAlphabet, MaxTextLen)

NoQuery == [tag |-> "None", arg |-> <<>>]

NoArXiv == from_args(NoQuery)

\* Expressions handed to the combinators and to from_args: leaves and
\* nested combinators, as in the crate's examples (lib.rs:28-34).
SampleExprs ==
    {title(<<"a", "i">>),
     author(<<"a", " ", "b">>),
     subject_category("CsAi"),
     or(<<title(<<"a", "i">>), title(<<"l", "l", "m">>)>>),
     group(<<or(<<subject_category("CsAi"), subject_category("CsLg")>>)>>)}

ArgLists == SeqsUpTo(SampleExprs, MaxArgs)

\* (from, to) pairs of YYYYMMDDHHMM timestamps (lib.rs:38), and a pair of
\* &str that are no timestamps: a date with a space and one with %20
DateRanges ==
    {<<<<"2", "0", "2", "4", "1", "2", "0", "1", "0", "0", "0", "0">>,
       <<"2", "0", "2", "4", "1", "2", "0", "1", "2", "3", "5", "9">>>>,
     <<<<"2", "0", "2", "4", " ", "1", "2">>,
       <<"2", "0", "2", "4", "%", "2", "0", "1", "2">>>>,
     <<<<"2", "0", "2", "4", "1", "2", "0", "1", "2", "3", "5", "9">>,
       <<"2", "0", "2", "4", "1", "2", "0", "1", "2", "3", "5", "9">>>>}

StartValues == {0, 10}
MaxResultsValues == {1, 100}

\* Requests are made from a leaf and from a nested expression.
RequestArgs ==
    {title(<<"a", " ", "b">>),
     and(<<or(<<title(<<"a", "i">>), title(<<"l", "l", "m">>)>>),
           group(<<or(<<subject_category("CsAi"), subject_category("CsLg")>>)>>)>>)}

NoCalls == <<>>

\* The calls s without those of setter name
RECURSIVE Superseded(_, _)
Superseded(s, name) ==
    IF s = <<>> THEN <<>>
    ELSE IF Head(s).name = name THEN Superseded(Tail(s), name)
    ELSE <<Head(s)>> \o Superseded(Tail(s), name)

Record(name, value) == Append(Superseded(calls, name), [name |-> name, value |-> value])

\* ------------------------------------------------------------------------
\* The feed: bounds and input sets of the parser specification
\* ------------------------------------------------------------------------

MaxEvents == 12

FeedTexts == {<<"x">>, <<"y", "&amp;">>}
BadText == <<"x", UndeclaredEntity>>

\* The texts of a summary element: every short text of letters, spaces and
\* line breaks, and longer ones with whitespace at both ends and inside
MaxAbstractLen == 2
LongAbstracts ==
    {<<"a", "\n", "a">>,
     <<" ", "\n", "a", " ", "\n", " ", "a", "\n", " ">>,
     <<"\t", "a", "&amp;", "\n", "\n", "a", "\t">>}
AbstractTexts == SeqsUpTo({"a", " ", "\n"}, MaxAbstractLen) \cup LongAbstracts

Href1 == <<"h", "1">>
Href2 == <<"h", "2">>
Terms1 == <<"c", "s", ".", "A", "I">>
Terms2 == <<"c", "s", ".", "L", "G">>

\* The element names the parser tells apart, and one it does not ("other",
\* such as arxiv:doi)
FieldNames ==
    {"id", "title", "summary", "published", "updated", "arxiv:comment",
     "arxiv:journal_ref"}
AttrNames == {"link", "arxiv:primary_category", "category"}

\* An element as the feed writes it: its name, whether it is self-closing,
\* and its attributes. "#text" stands for character data between the child
\* elements of the feed, of an entry or of an author.
Element(name) == [name |-> name, empty |-> FALSE, attrs |-> NoAttrs]
Link(selfClosing, titleAttr, hrefAttr) ==
    [name |-> "link", empty |-> selfClosing,
     attrs |-> [title |-> titleAttr, href |-> hrefAttr, term |-> None]]
PrimaryCategoryElement(selfClosing, termAttr) ==
    [name |-> "arxiv:primary_category", empty |-> selfClosing,
     attrs |-> [title |-> None, href |-> None, term |-> termAttr]]
CategoryElement(selfClosing, termAttr) ==
    [name |-> "category", empty |-> selfClosing,
     attrs |-> [title |-> None, href |-> None, term |-> termAttr]]

\* The vocabulary of a feed that nests author and name elements
NestedVocabulary ==
    {Element("entry"), Element("author"), Element("name"), Element("#text"),
     Element("#nest"), CategoryElement(TRUE, Some(Terms1))}

\* A feed takes its content from one vocabulary.
Vocabularies ==
    {{Element("entry"), Element("id"), Element("arxiv:journal_ref"), Element("other"),
      Element("#text")},
     {Element("entry"), Element("author"), Element("name"), Element("arxiv:comment"),
      Element("#text")},
     {Element("entry"), Element("author"), Element("name"),
      CategoryElement(TRUE, Some(Terms1)), Link(TRUE, Some("pdf"), Some(Href1))},
     {Element("entry"), Element("arxiv:journal_ref"),
      Link(TRUE, Some("doi"), Some(Href1)), Link(TRUE, Some("pdf"), Some(Href2)),
      Link(FALSE, Some("related"), Some(Href2)),
      CategoryElement(FALSE, Some(Terms1)), CategoryElement(TRUE, Some(Terms2)),
      CategoryElement(TRUE, None)},
     {Element("entry"), Element("summary")},
     {Element("entry"), Element("title"), Element("published"), Element("updated")},
     {Element("entry"),
      Link(FALSE, Some("pdf"), Some(Href1)), Link(TRUE, Some("pdf"), Some(Href2)),
      Link(TRUE, Some("doi"), Some(Href1)), Link(FALSE, Some("doi"), Some(Href2)),
      Link(TRUE, Some("related"), Some(Href1)), Link(TRUE, None, Some(Href2)),
      Link(TRUE, Some("pdf"), None), Link(FALSE, Some("doi"), None)},
     {Element("entry"), Element("id"), Element("#text"),
      PrimaryCategoryElement(FALSE, Some(Terms1)), PrimaryCategoryElement(TRUE, Some(Terms2)),
      CategoryElement(FALSE, Some(Terms1)), Link(FALSE, Some("pdf"), Some(Href1))}}

Names(vocab) == {s.name : s \in vocab}

\* The character data a feed of this vocabulary holds
TextsIn(vocab) == IF "summary" \in Names(vocab) THEN AbstractTexts ELSE FeedTexts

Top(s) == IF s = <<>> THEN "" ELSE s[Len(s)]

InEntry(s) == \E i \in 1..Len(s) : s[i] = "entry"

\* The elements that may be opened inside parent ("" is the feed itself):
\* entries are children of the feed and are not nested, field elements hold
\* text only, author holds name elements.
\* A vocabulary with "#nest" also nests author and name elements in each
\* other and puts name elements in the entry itself.
Nests == "#nest" \in Names(feed.vocab)

Children(parent) ==
    IF parent = "" THEN {"entry", "id", "title", "updated", "other"} \cup AttrNames
    ELSE IF parent = "entry"
    THEN FieldNames \cup AttrNames \cup {"author", "other"}
         \cup (IF Nests THEN {"name"} ELSE {})
    ELSE IF parent = "author" THEN {"name"} \cup (IF Nests THEN {"author"} ELSE {})
    ELSE IF parent = "name" /\ Nests THEN {"author", "name"}
    ELSE {}

\* What the feed says about one entry, read off the document structure
\* (authors, comment, categories: the texts and terms in document order;
\* journal_ref, doi, pdf: whether the entry has such an element or link;
\* pdf_href, doi_href: the href of its last pdf link and of its last doi
\* link, of those that have one; summary: the text of its summary
\* element), with the accumulator at the
\* entry's close (record), the Paper of the parse of the entry alone and the
\* Paper of the parse of the feed without what is outside its entries (inner).
Summary ==
    [authors |-> <<>>, comment |-> <<>>, categories |-> <<>>,
     journal_ref |-> FALSE, doi |-> FALSE, pdf |-> FALSE, pdf_href |-> None,
     doi_href |-> None, summary |-> <<>>,
     record |-> PaperDefault, alone |-> PaperDefault, inner |-> PaperDefault]

Path(s, names) == Len(s) >= Len(names) /\ SubSeq(s, Len(s) - Len(names) + 1, Len(s)) = names

\* The summary of the current entry after an element with these attributes
SummaryElement(sum, name, attrs) ==
    IF name = "arxiv:journal_ref" THEN [sum EXCEPT !.journal_ref = TRUE]
    ELSE IF name = "link" /\ attrs.title = Some("doi")
    THEN [sum EXCEPT !.doi = TRUE,
                     !.doi_href = IF attrs.href = None THEN @ ELSE attrs.href]
    ELSE IF name = "link" /\ attrs.title = Some("pdf")
    THEN [sum EXCEPT !.pdf = TRUE,
                     !.pdf_href = IF attrs.href = None THEN @ ELSE attrs.href]
    ELSE IF name = "category" /\ attrs.term # None
    THEN [sum EXCEPT !.categories = Append(@, attrs.term[1])]
    ELSE sum

\* The summary of the current entry after character data t
SummaryText(sum, t) ==
    IF open = <<"entry", "author", "name">>
    THEN [sum EXCEPT !.authors = Append(@, unescape(t))]
    ELSE IF open = <<"entry", "arxiv:comment">>
    THEN [sum EXCEPT !.comment = Append(@, unescape(t))]
    ELSE IF open = <<"entry", "summary">>
    THEN [sum EXCEPT !.summary = unescape(t)]
    ELSE sum

\* No call of the pair is in progress
NoPair == [feeds |-> <<>>, at |-> <<>>, frames |-> <<>>, out |-> <<>>, last |-> 0,
           switches |-> 0]

NoFeed ==
    [vocab |-> {}, entries |-> 0, events |-> 0, prev |-> "", cur |-> Summary,
     sealed |-> <<>>, inner |-> [flags |-> FlagsDefault, res |-> PaperDefault]]

ParseIdle ==
    /\ flags = FlagsDefault
    /\ res = PaperDefault
    /\ responses = <<>>
    /\ returned = FALSE
    /\ panicked = FALSE
    /\ open = <<>>
    /\ feed = NoFeed
    /\ alone = [flags |-> FlagsDefault, res |-> PaperDefault]
    /\ pair = NoPair

\* ------------------------------------------------------------------------
\* SpecParse: parse_xml reading a feed event by event
\* ------------------------------------------------------------------------

InitParse ==
    /\ text = <<>>
    /\ args = <<>>
    /\ q = NoQuery
    /\ arxiv = NoArXiv
    /\ calls = NoCalls
    /\ url = None
    /\ fetches = <<>>
    /\ op = "parse_xml"
    /\ flags = FlagsDefault
    /\ res = PaperDefault
    /\ responses = <<>>
    /\ returned = FALSE
    /\ panicked = FALSE
    /\ open = <<>>
    /\ feed \in {[NoFeed EXCEPT !.vocab = v] : v \in Vocabularies}
    /\ alone = [flags |-> FlagsDefault, res |-> PaperDefault]
    /\ pair = NoPair

\* SpecNested: parse_xml reading a feed that nests author and name elements
InitNested ==
    /\ text = <<>>
    /\ args = <<>>
    /\ q = NoQuery
    /\ arxiv = NoArXiv
    /\ calls = NoCalls
    /\ url = None
    /\ fetches = <<>>
    /\ op = "parse_xml"
    /\ flags = FlagsDefault
    /\ res = PaperDefault
    /\ responses = <<>>
    /\ returned = FALSE
    /\ panicked = FALSE
    /\ open = <<>>
    /\ feed = [NoFeed EXCEPT !.vocab = NestedVocabulary]
    /\ alone = [flags |-> FlagsDefault, res |-> PaperDefault]
    /\ pair = NoPair

\* One turn of the loop: the parser's state becomes st
Loop(st) ==
    /\ flags' = st.flags
    /\ res' = st.res
    /\ responses' = st.responses
    /\ UNCHANGED <<returned, panicked, pair, queryVars>>

Now == Parser(flags, res, responses)

\* The loop is running: it has neither ended nor panicked
Reading == op = "parse_xml" /\ ~returned /\ ~panicked

\* The parse of the entry alone, from fresh flags
Alone == Parser(alone.flags, alone.res, <<>>)
AloneAfter(st) == [flags |-> st.flags, res |-> st.res]
AloneFresh == [flags |-> FlagsDefault, res |-> PaperDefault]

\* The parse of the feed's entries without what is outside them
Inner == Parser(feed.inner.flags, feed.inner.res, <<>>)

\* The budget of events left where the reader stands: an element that is
\* opened must still be closed.
Room(n) == feed.events + n + Len(open) <= MaxEvents

StartEntry ==
    /\ Reading
    /\ open = <<>>
    /\ "entry" \in Names(feed.vocab)
    /\ Room(2)
    /\ Loop(OnStart(Now, "entry", NoAttrs))
    /\ open' = <<"entry">>
    /\ feed' = [feed EXCEPT !.entries = @ + 1, !.events = @ + 1, !.prev = "Start",
                            !.cur = Summary,
                            !.inner = AloneAfter(OnStart(Inner, "entry", NoAttrs))]
    /\ alone' = AloneAfter(OnStart(Parser(FlagsDefault, PaperDefault, <<>>), "entry", NoAttrs))

EndEntry ==
    /\ Reading
    /\ open = <<"entry">>
    /\ Loop(OnEnd(Now, "entry"))
    /\ open' = <<>>
    /\ feed' = [feed EXCEPT !.events = @ + 1, !.prev = "End", !.cur = Summary,
                            !.sealed = Append(@, [feed.cur EXCEPT !.record = res,
                                                                 !.alone = alone.res,
                                                                 !.inner = feed.inner.res]),
                            !.inner = AloneAfter(OnEnd(Inner, "entry"))]
    /\ alone' = AloneAfter(OnEnd(Alone, "entry"))

StartEvent ==
    /\ Reading
    /\ Room(2)
    /\ \E e \in feed.vocab :
        /\ ~e.empty
        /\ e.name \in Children(Top(open)) \ {"entry"}
        /\ Loop(OnStart(Now, e.name, e.attrs))
        /\ open' = Append(open, e.name)
        /\ feed' = [feed EXCEPT !.events = @ + 1, !.prev = "Start",
                                !.cur = IF open = <<"entry">>
                                        THEN SummaryElement(@, e.name, e.attrs) ELSE @,
                                !.inner = IF InEntry(open)
                                          THEN AloneAfter(OnStart(Inner, e.name, e.attrs))
                                          ELSE @]
        /\ alone' = IF InEntry(open)
                     THEN AloneAfter(OnStart(Alone, e.name, e.attrs)) ELSE alone

EndEvent ==
    /\ Reading
    /\ open # <<>>
    /\ Top(open) # "entry"
    /\ Loop(OnEnd(Now, Top(open)))
    /\ open' = SubSeq(open, 1, Len(open) - 1)
    /\ feed' = [feed EXCEPT !.events = @ + 1, !.prev = "End",
                            !.inner = IF InEntry(open)
                                      THEN AloneAfter(OnEnd(Inner, Top(open))) ELSE @]
    /\ alone' = IF InEntry(open) THEN AloneAfter(OnEnd(Alone, Top(open))) ELSE alone

\* Character data: in a field element, in a name, in an element the parser
\* does not know, or between child elements; the reader delivers adjacent
\* character data as one event.
TextPosition ==
    /\ feed.prev # "Text"
    /\ \/ Top(open) \in FieldNames \cup {"name", "other"} /\ feed.prev = "Start"
       \/ /\ Top(open) \in {"", "entry", "author"} \cup (IF Nests THEN {"name"} ELSE {})
          /\ "#text" \in Names(feed.vocab)

TextEvent ==
    /\ Reading
    /\ Room(1)
    /\ TextPosition
    /\ \E t \in TextsIn(feed.vocab) :
        /\ Loop(OnText(Now, t))
        /\ feed' = [feed EXCEPT !.events = @ + 1, !.prev = "Text",
                                !.cur = IF InEntry(open) THEN SummaryText(@, t) ELSE @,
                                !.inner = IF InEntry(open)
                                          THEN AloneAfter(OnText(Inner, t)) ELSE @]
        /\ alone' = IF InEntry(open) THEN AloneAfter(OnText(Alone, t)) ELSE alone
    /\ UNCHANGED open

EmptyEvent ==
    /\ Reading
    /\ Room(1)
    /\ \E e \in feed.vocab :
        /\ e.empty
        /\ e.name \in Children(Top(open))
        /\ Loop(OnEmpty(Now, e.name, e.attrs))
        /\ feed' = [feed EXCEPT !.events = @ + 1, !.prev = "Empty",
                                !.cur = IF open = <<"entry">>
                                        THEN SummaryElement(@, e.name, e.attrs) ELSE @,
                                !.inner = IF InEntry(open)
                                          THEN AloneAfter(OnEmpty(Inner, e.name, e.attrs))
                                          ELSE @]
        /\ alone' = IF InEntry(open)
                     THEN AloneAfter(OnEmpty(Alone, e.name, e.attrs)) ELSE alone
    /\ UNCHANGED open

\* The call ends in a panic: the locals are dropped, nothing is returned
Panic ==
    /\ panicked' = TRUE
    /\ UNCHANGED <<flags, res, responses, returned, open, alone, pair, queryVars>>

\* Character data with a reference to an undeclared entity: the branch of
\* the Text arm that reads it panics, outside every branch it is skipped.
TextEventUndeclared ==
    /\ Reading
    /\ Room(1)
    /\ TextPosition
    /\ IF OnTextPanics(Now, BadText)
       THEN /\ Panic
            /\ feed' = [feed EXCEPT !.events = @ + 1, !.prev = "Err"]
       ELSE /\ Loop(OnText(Now, BadText))
            /\ feed' = [feed EXCEPT !.events = @ + 1, !.prev = "Text",
                                    !.inner = IF InEntry(open) /\ ~OnTextPanics(Inner, BadText)
                                              THEN AloneAfter(OnText(Inner, BadText))
                                              ELSE @]
            /\ alone' = IF InEntry(open) /\ ~OnTextPanics(Alone, BadText)
                         THEN AloneAfter(OnText(Alone, BadText)) ELSE alone
            /\ UNCHANGED open

\* The reader finds the document malformed where it stands
ErrEvent ==
    /\ Reading
    /\ feed' = [feed EXCEPT !.prev = "Err"]
    /\ IF ErrArm = "panic"
       THEN Panic
       ELSE /\ returned' = TRUE
            /\ UNCHANGED <<flags, res, responses, panicked, open, alone, pair, queryVars>>

\* Ok(Event::Eof) => break, then return responses
Eof ==
    /\ Reading
    /\ open = <<>>
    /\ returned' = TRUE
    /\ feed' = [feed EXCEPT !.prev = "Eof"]
    /\ UNCHANGED <<flags, res, responses, panicked, open, alone, pair, queryVars>>

NextParse ==
    \/ StartEntry
    \/ EndEntry
    \/ StartEvent
    \/ EndEvent
    \/ TextEvent
    \/ EmptyEvent
    \/ TextEventUndeclared
    \/ ErrEvent
    \/ Eof

SpecParse == InitParse /\ [][NextParse]_vars

SpecNested == InitNested /\ [][NextParse]_vars

\* ------------------------------------------------------------------------
\* SpecTerm: a leaf factory applied to a user text
\* ------------------------------------------------------------------------

InitTerm ==
    /\ text \in Texts
    /\ args = <<>>
    /\ q = NoQuery
    /\ arxiv = NoArXiv
    /\ calls = NoCalls
    /\ url = None
    /\ fetches = <<>>
    /\ op = "none"
    /\ ParseIdle

Returned(name, value) ==
    /\ op = "none"
    /\ q' = value
    /\ op' = name
    /\ UNCHANGED <<text, args, arxiv, calls, url, fetches>>
    /\ UNCHANGED parseVars

Title == Returned("title", title(text))
Author == Returned("author", author(text))
AbstractText == Returned("abstract_text", abstract_text(text))
Comment == Returned("comment", comment(text))
JournalRef == Returned("journal_ref", journal_ref(text))
ReportNumber == Returned("report_number", report_number(text))
Id == Returned("id", id(text))
All == Returned("all", all(text))
SubjectCategory == \E c \in Category : Returned("subject_category", subject_category(c))

NextTerm ==
    \/ Title
    \/ Author
    \/ AbstractText
    \/ Comment
    \/ JournalRef
    \/ ReportNumber
    \/ Id
    \/ All
    \/ SubjectCategory

SpecTerm == InitTerm /\ [][NextTerm]_vars

\* ------------------------------------------------------------------------
\* SpecExpr: a combinator applied to a list of expressions
\* ------------------------------------------------------------------------

InitExpr ==
    /\ text = <<>>
    /\ args \in ArgLists
    /\ q = NoQuery
    /\ arxiv = NoArXiv
    /\ calls = NoCalls
    /\ url = None
    /\ fetches = <<>>
    /\ op = "none"
    /\ ParseIdle

And == Returned("and", and(args))
Or == Returned("or", or(args))
AndNot == Returned("and_not", and_not(args))
Group == Returned("group", group(args))

NextExpr ==
    \/ And
    \/ Or
    \/ AndNot
    \/ Group

SpecExpr == InitExpr /\ [][NextExpr]_vars

\* ------------------------------------------------------------------------
\* SpecRequest: setters called on a request in any order, then build_query
\* ------------------------------------------------------------------------

InitRequest ==
    /\ text = <<>>
    /\ args = <<>>
    /\ q \in RequestArgs
    /\ arxiv = from_args(q)
    /\ calls = NoCalls
    /\ url = None
    /\ fetches = <<>>
    /\ op = "from_args"
    /\ ParseIdle

\* A setter call: the request changes, the call is recorded, and the String
\* an earlier build_query returned is no longer the request's rendering.
Setter(name, value, self) ==
    /\ arxiv' = self
    /\ calls' = Record(name, value)
    /\ op' = name
    /\ url' = None
    /\ UNCHANGED <<text, args, q, fetches>>
    /\ UNCHANGED parseVars

SubmittedDate ==
    \E range \in DateRanges :
        Setter("submitted_date", range, submitted_date(arxiv, range[1], range[2]))

Start == \E n \in StartValues : Setter("start", <<n>>, start(arxiv, n))

MaxResults == \E n \in MaxResultsValues : Setter("max_results", <<n>>, max_results(arxiv, n))

SortByCall == \E s \in SortBy : Setter("sort_by", <<s>>, sort_by(arxiv, s))

SortOrderCall == \E o \in SortOrder : Setter("sort_order", <<o>>, sort_order(arxiv, o))

BuildQuery ==
    /\ url = None
    /\ url' = Some(build_query(arxiv))
    /\ op' = "build_query"
    /\ UNCHANGED <<text, args, q, arxiv, calls, fetches>>
    /\ UNCHANGED parseVars

NextRequest ==
    \/ SubmittedDate
    \/ Start
    \/ MaxResults
    \/ SortByCall
    \/ SortOrderCall
    \/ BuildQuery

SpecRequest == InitRequest /\ [][NextRequest]_vars

\* ------------------------------------------------------------------------
\* Helpers of the properties
\* ------------------------------------------------------------------------

\* The number of positions at which needle occurs in hay.
Count(hay, needle) ==
    Cardinality({h \in 1..Len(hay) : MatchAt(hay, h, needle)})

\* The children's renderings with tok between neighbours, built from the left.
RECURSIVE Interleave(_, _, _)
Interleave(list, tok, n) ==
    IF n = 0 THEN <<>>
    ELSE IF n = 1 THEN list[1].arg
    ELSE Interleave(list, tok, n - 1) \o tok \o list[n].arg

NonAlphaNum == {" ", "\"", "%", "&", "(", ")", "+", ".", ":", "=", "[", "]"}

IsEscapeAt(s, at) ==
    /\ at + 2 <= Len(s)
    /\ s[at] = "%"
    /\ \E c \in NonAlphaNum : HexOf(c) = <<s[at + 1], s[at + 2]>>

\* The position of the leftmost escape %XY of s, 0 when s has none
FirstEscape(s) ==
    LET escapes == {e \in 1..Len(s) : IsEscapeAt(s, e)}
    IN  IF escapes = {} THEN 0 ELSE CHOOSE e \in escapes : \A f \in escapes : e <= f

\* Percent-decoding: every %XY becomes the character with code XY. Each
\* step copies the text before the leftmost escape and decodes the escape.
RECURSIVE PercentDecode(_)
PercentDecode(s) ==
    IF FirstEscape(s) = 0 THEN s
    ELSE SubSeq(s, 1, FirstEscape(s) - 1)
         \o <<CHOOSE c \in NonAlphaNum :
                HexOf(c) = <<s[FirstEscape(s) + 1], s[FirstEscape(s) + 2]>> >>
         \o PercentDecode(SubSeq(s, FirstEscape(s) + 3, Len(s)))

\* Decoding of a URL query component: a + is a space, then percent-decoding.
PlusToSpace(s) == [i \in 1..Len(s) |-> IF s[i] = "+" THEN " " ELSE s[i]]
QueryDecode(s) == PercentDecode(PlusToSpace(s))

LeafOps ==
    {"title", "author", "abstract_text", "comment", "journal_ref",
     "report_number", "id", "all"}

PrefixOf(o) ==
    CASE o = "title" -> <<"t", "i">>
    [] o = "author" -> <<"a", "u">>
    [] o = "abstract_text" -> <<"a", "b", "s">>
    [] o = "comment" -> <<"c", "o">>
    [] o = "journal_ref" -> <<"j", "r">>
    [] o = "report_number" -> <<"r", "n">>
    [] o = "id" -> <<"i", "d">>
    [] o = "all" -> <<"a", "l", "l">>

PlainTerm(o, t) == PrefixOf(o) \o <<":", "\"">> \o t \o <<"\"">>

TokenOf(o) ==
    CASE o = "and" -> <<"+", "A", "N", "D", "+">>
    [] o = "or" -> <<"+", "O", "R", "+">>
    [] o = "and_not" -> <<"+", "A", "N", "D", "N", "O", "T", "+">>

\* ------------------------------------------------------------------------
\* Properties of the query builder
\* ------------------------------------------------------------------------

\* C3: for a non-empty list, and / or / and_not render as the children's
\* renderings in list order joined by +AND+ / +OR+ / +ANDNOT+, and nothing
\* else is added.
C3_CombinatorsJoinChildren ==
    (op \in {"and", "or", "and_not"} /\ args # <<>>)
        => q.arg = Interleave(args, TokenOf(op), Len(args))

C3_Witness ==
    /\ op = "and_not"
    /\ Len(args) = 3
    /\ args[1] # args[2]
    /\ args[2] # args[3]

\* C4 as stated: percent-decoding the rendered leaf term recovers
\* <prefix>:"<text>" for every factory and every text.
C4_PercentDecodeRoundTrip ==
    op \in LeafOps => PercentDecode(q.arg) = PlainTerm(op, text)

\* C4 amended: decoding the rendered leaf term as a URL query component
\* (each + read as a space, then percent-decoding) recovers
\* <prefix>:"<text>" for every factory and every text.
C4_QueryDecodeRoundTrip ==
    op \in LeafOps => QueryDecode(q.arg) = PlainTerm(op, text)

C4_Witness ==
    /\ op = "abstract_text"
    /\ text = <<"a", " ", "+">>
    /\ q.arg = <<"a", "b", "s", "%", "3", "A", "%", "2", "2", "a", "+", "%", "2", "B", "%", "2", "2">>

\* C10: for a non-empty list, group renders as %28, the children's
\* renderings in list order, then %29.
C10_GroupWrapsChildren ==
    (op = "group" /\ args # <<>>)
        => q.arg = <<"%", "2", "8">> \o Interleave(args, <<>>, Len(args)) \o <<"%", "2", "9">>

C10_Witness ==
    /\ op = "group"
    /\ Len(args) = 2
    /\ args[1] # args[2]

\* ------------------------------------------------------------------------
\* Properties of the request
\* ------------------------------------------------------------------------

Called(name) == \E c \in 1..Len(calls) : calls[c].name = name

\* The arguments of the most recent call of a setter
LastArgs(name) == calls[CHOOSE c \in 1..Len(calls) : calls[c].name = name].value

KeyOf ==
    [submitted_date |-> <<"&", "s", "u", "b", "m", "i", "t", "t", "e", "d", "D", "a", "t", "e", ":", "[">>,
     start |-> <<"&", "s", "t", "a", "r", "t", "=">>,
     max_results |-> <<"&", "m", "a", "x", "_", "r", "e", "s", "u", "l", "t", "s", "=">>,
     sort_by |-> <<"&", "s", "o", "r", "t", "B", "y", "=">>,
     sort_order |-> <<"&", "s", "o", "r", "t", "O", "r", "d", "e", "r", "=">>]

\* The setters in the order their components are rendered
RenderOrder == <<"submitted_date", "start", "max_results", "sort_by", "sort_order">>

DecimalOf(n) ==
    CASE n = 0 -> <<"0">>
    [] n = 1 -> <<"1">>
    [] n = 10 -> <<"1", "0">>
    [] n = 100 -> <<"1", "0", "0">>

\* The text a component carries after its key
ValueText(name, value) ==
    CASE name = "submitted_date" -> value[1] \o <<"+", "T", "O", "+">> \o value[2] \o <<"]">>
    [] name = "start" -> DecimalOf(value[1])
    [] name = "max_results" -> DecimalOf(value[1])
    [] name = "sort_by" ->
        (CASE value[1] = "Relevance" -> <<"r", "e", "l", "e", "v", "a", "n", "c", "e">>
         [] value[1] = "LastUpdatedDate" -> <<"l", "a", "s", "t", "U", "p", "d", "a", "t", "e", "d", "D", "a", "t", "e">>
         [] value[1] = "SubmittedDate" -> <<"s", "u", "b", "m", "i", "t", "t", "e", "d", "D", "a", "t", "e">>)
    [] name = "sort_order" ->
        (CASE value[1] = "Ascending" -> <<"a", "s", "c", "e", "n", "d", "i", "n", "g">>
         [] value[1] = "Descending" -> <<"d", "e", "s", "c", "e", "n", "d", "i", "n", "g">>)

\* c occurs in u as a whole component: up to the next & or the end
HasComponent(hay, comp) ==
    \E h \in 1..Len(hay) :
        /\ MatchAt(hay, h, comp)
        /\ (h + Len(comp) = Len(hay) + 1 \/ hay[h + Len(comp)] = "&")

IsSuffix(s, u) == Len(s) <= Len(u) /\ SubSeq(u, Len(u) - Len(s) + 1, Len(u)) = s

ExampleTail ==
    <<"&", "s", "t", "a", "r", "t", "=", "1", "0", "&", "m", "a", "x", "_", "r", "e", "s", "u", "l", "t", "s", "=", "1", "0", "0",
      "&", "s", "o", "r", "t", "B", "y", "=", "s", "u", "b", "m", "i", "t", "t", "e", "d", "D", "a", "t", "e",
      "&", "s", "o", "r", "t", "O", "r", "d", "e", "r", "=", "a", "s", "c", "e", "n", "d", "i", "n", "g">>

\* C5: whatever the order of the setter calls, the URL starts with the base
\* and the encoded expression, and the components that follow it appear in
\* the order date range, start, max_results, sortBy, sortOrder; with
\* start=10, max_results=100, SubmittedDate and Ascending the URL ends with
\* &start=10&max_results=100&sortBy=submittedDate&sortOrder=ascending.
\* The first position of each component's key in u, in rendering order
KeyPositions(u) ==
    <<Find(u, KeyOf["submitted_date"]), Find(u, KeyOf["start"]),
      Find(u, KeyOf["max_results"]), Find(u, KeyOf["sort_by"]),
      Find(u, KeyOf["sort_order"])>>

C5_ComponentsInFixedOrder ==
    url # None =>
        /\ IsPrefix(BaseUrl \o q.arg, url[1])
        /\ \A pos \in {KeyPositions(url[1])} :
            /\ \A i \in 1..5 : pos[i] # 0 => pos[i] > Len(BaseUrl \o q.arg)
            /\ \A i, j \in 1..5 : (i < j /\ pos[i] # 0 /\ pos[j] # 0) => pos[i] < pos[j]
        /\ (/\ Called("start") /\ LastArgs("start") = <<10>>
            /\ Called("max_results") /\ LastArgs("max_results") = <<100>>
            /\ Called("sort_by") /\ LastArgs("sort_by") = <<"SubmittedDate">>
            /\ Called("sort_order") /\ LastArgs("sort_order") = <<"Ascending">>)
           => IsSuffix(ExampleTail, url[1])

\* All five setters called, in the reverse of the rendering order
C5_Witness ==
    /\ url # None
    /\ [i \in 1..Len(calls) |-> calls[i].name]
        = <<"sort_order", "sort_by", "max_results", "start", "submitted_date">>
    /\ LastArgs("start") = <<10>>
    /\ LastArgs("max_results") = <<100>>
    /\ LastArgs("sort_by") = <<"SubmittedDate">>
    /\ LastArgs("sort_order") = <<"Ascending">>

\* C6: a component is in the URL exactly when its setter was called, at most
\* once, with the arguments of the most recent call; with no setter called
\* the URL is the base URL and the expression.
C6_ComponentsIffSet ==
    url # None =>
        LET u == url[1]
        IN  /\ \A i \in 1..5 :
                LET setter == RenderOrder[i]
                IN  IF Called(setter)
                    THEN /\ Count(u, KeyOf[setter]) = 1
                         /\ HasComponent(u, KeyOf[setter] \o ValueText(setter, LastArgs(setter)))
                    ELSE Count(u, KeyOf[setter]) = 0
            /\ calls = <<>> => u = BaseUrl \o q.arg

\* start called and not max_results, after start was called with another value
C6_Witness ==
    /\ url # None
    /\ Called("start")
    /\ LastArgs("start") = <<10>>
    /\ Called("sort_by")
    /\ ~Called("max_results")
    /\ arxiv.start = Some(10)
    /\ Count(url[1], KeyOf["start"]) = 1

\* C7: with submitted_date(from, to) set, the URL holds the expression
\* followed by +AND+ and the clause submittedDate:[<from>+TO+<to>].
C7_DateRangeAndedOntoExpression ==
    (url # None /\ Called("submitted_date")) =>
        Find(url[1],
             q.arg \o <<"+", "A", "N", "D", "+">>
             \o Tail(KeyOf["submitted_date"])
             \o ValueText("submitted_date", LastArgs("submitted_date"))) # 0

\* ------------------------------------------------------------------------
\* SpecQuery: query renders the URL, fetches it and parses the body
\* ------------------------------------------------------------------------

\* What request::get(&url).await gives: Err for a transport failure, else
\* Ok(Response) whatever the status of the response
Outcomes ==
    {[kind |-> "Err", status |-> 0],
     [kind |-> "Ok", status |-> 200],
     [kind |-> "Ok", status |-> 400]}

\* The bodies a server sends: a feed of entries (arXiv also reports an error
\* as a feed with one entry) and a page that is no feed
Bodies ==
    {{Element("entry"), Element("id"), Element("#text"),
      CategoryElement(TRUE, Some(Terms1))},
     {Element("other"), Element("#text"), CategoryElement(TRUE, Some(Terms1))}}

InitQuery ==
    /\ text = <<>>
    /\ args = <<>>
    /\ q \in RequestArgs
    /\ arxiv = from_args(q)
    /\ calls = NoCalls
    /\ url = None
    /\ fetches = <<>>
    /\ op = "query"
    /\ ParseIdle

\* let url = self.build_query();
QueryBuildQuery ==
    /\ op = "query"
    /\ url' = Some(build_query(arxiv))
    /\ op' = "build_query"
    /\ UNCHANGED <<text, args, q, arxiv, calls, fetches>>
    /\ UNCHANGED parseVars

\* request::get(&url).await.unwrap()
Get ==
    /\ op = "build_query"
    /\ ~panicked
    /\ \E o \in Outcomes :
        /\ fetches' = Append(fetches, [url |-> url[1], outcome |-> o])
        /\ panicked' = (o.kind = "Err")
    /\ op' = "get"
    /\ UNCHANGED <<text, args, q, arxiv, calls, url>>
    /\ UNCHANGED <<flags, res, responses, returned, open, feed, alone, pair>>

\* .text().await.unwrap(), then self.parse_xml(body) is entered
BodyText ==
    /\ op = "get"
    /\ ~panicked
    /\ \/ /\ \E body \in Bodies : feed' = [NoFeed EXCEPT !.vocab = body]
          /\ op' = "parse_xml"
          /\ UNCHANGED panicked
       \/ /\ panicked' = TRUE
          /\ op' = "text"
          /\ UNCHANGED feed
    /\ UNCHANGED <<text, args, q, arxiv, calls, url, fetches>>
    /\ UNCHANGED <<flags, res, responses, returned, open, alone, pair>>

NextQuery ==
    \/ QueryBuildQuery
    \/ Get
    \/ BodyText
    \/ StartEntry
    \/ EndEntry
    \/ StartEvent
    \/ EndEvent
    \/ TextEvent
    \/ EmptyEvent
    \/ TextEventUndeclared
    \/ ErrEvent
    \/ Eof

SpecQuery == InitQuery /\ [][NextQuery]_vars

\* ------------------------------------------------------------------------
\* SpecPair: two calls of parse_xml, their loop turns interleaved
\* ------------------------------------------------------------------------

\* The events of a document, as reader.read_event_into delivers them
StartOf(name) == [kind |-> "Start", name |-> name, attrs |-> NoAttrs, text |-> <<>>]
EndOf(name) == [kind |-> "End", name |-> name, attrs |-> NoAttrs, text |-> <<>>]
TextOf(t) == [kind |-> "Text", name |-> "", attrs |-> NoAttrs, text |-> t]
EmptyOf(e) == [kind |-> "Empty", name |-> e.name, attrs |-> e.attrs, text |-> <<>>]

\* match reader.read_event_into(&mut buf) { ... }
Handle(st, ev) ==
    IF ev.kind = "Start" THEN OnStart(st, ev.name, ev.attrs)
    ELSE IF ev.kind = "End" THEN OnEnd(st, ev.name)
    ELSE IF ev.kind = "Text" THEN OnText(st, ev.text)
    ELSE OnEmpty(st, ev.name, ev.attrs)

\* The locals as parse_xml declares them
Fresh == Parser(FlagsDefault, PaperDefault, <<>>)

\* One call of parse_xml on a document, from its first event to Eof
RECURSIVE Run(_, _)
Run(st, events) ==
    IF events = <<>> THEN st ELSE Run(Handle(st, Head(events)), Tail(events))

parse_xml(events) == Run(Fresh, events).responses

\* The documents of the two calls
PairFeeds ==
    {<<>>,
     <<StartOf("entry"), StartOf("id"), TextOf(<<"x">>), EndOf("id"), EndOf("entry")>>,
     <<StartOf("entry"), StartOf("author"), StartOf("name"), TextOf(<<"y", "&amp;">>),
       EndOf("name"), EndOf("author"), EmptyOf(CategoryElement(TRUE, Some(Terms1))),
       EmptyOf(Link(TRUE, Some("pdf"), Some(Href1))), EndOf("entry")>>,
     <<StartOf("entry"), StartOf("arxiv:journal_ref"), TextOf(<<"x">>),
       EndOf("arxiv:journal_ref"), EndOf("entry"),
       StartOf("entry"), StartOf("title"), TextOf(<<"y", "&amp;">>), EndOf("title"),
       TextOf(<<"x">>), EndOf("entry")>>}

PairCalls == {1, 2}

\* Variant with the locals in one place shared by the calls (a static)
frame_shared(i) == 1

\* The frame that holds the locals of call i: its own
frame(i) == i

InitPair ==
    /\ text = <<>>
    /\ args = <<>>
    /\ q = NoQuery
    /\ arxiv = NoArXiv
    /\ calls = NoCalls
    /\ url = None
    /\ fetches = <<>>
    /\ op = "parse_xml, parse_xml"
    /\ flags = FlagsDefault
    /\ res = PaperDefault
    /\ responses = <<>>
    /\ returned = FALSE
    /\ panicked = FALSE
    /\ open = <<>>
    /\ feed = NoFeed
    /\ alone = [flags |-> FlagsDefault, res |-> PaperDefault]
    /\ \E f1 \in PairFeeds, f2 \in PairFeeds :
        pair = [feeds |-> <<f1, f2>>, at |-> <<0, 0>>, frames |-> <<Fresh, Fresh>>,
                out |-> <<None, None>>, last |-> 0, switches |-> 0]

\* Call i takes a turn: the turns of the two calls alternate when the call
\* that took the last turn is the other one
Turn(i) ==
    [pair EXCEPT !.last = i,
                 !.switches = IF pair.last \in {0, i} THEN @ ELSE @ + 1]

PairUnchanged ==
    UNCHANGED <<flags, res, responses, returned, panicked, open, feed, alone, queryVars>>

\* Call i is entered: its locals are declared
PairEnter(i) ==
    /\ pair.at[i] = 0
    /\ pair' = [Turn(i) EXCEPT !.at[i] = 1, !.frames[frame(i)] = Fresh]
    /\ PairUnchanged

\* One turn of the loop of call i
PairStep(i) ==
    /\ pair.at[i] \in 1..Len(pair.feeds[i])
    /\ pair.out[i] = None
    /\ pair' = [Turn(i) EXCEPT !.at[i] = @ + 1,
                               !.frames[frame(i)] = Handle(@, pair.feeds[i][pair.at[i]])]
    /\ PairUnchanged

\* Ok(Event::Eof) => break, then return responses
PairReturn(i) ==
    /\ pair.at[i] = Len(pair.feeds[i]) + 1
    /\ pair.out[i] = None
    /\ pair' = [Turn(i) EXCEPT !.out[i] = Some(pair.frames[frame(i)].responses)]
    /\ PairUnchanged

Enter == \E i \in PairCalls : PairEnter(i)
Step == \E i \in PairCalls : PairStep(i)
Return == \E i \in PairCalls : PairReturn(i)

NextPair ==
    \/ Enter
    \/ Step
    \/ Return

SpecPair == InitPair /\ [][NextPair]_vars

\* ------------------------------------------------------------------------
\* Properties of the feed parser
\* ------------------------------------------------------------------------

\* C1: there is one Paper per closed entry, the k-th Paper being the
\* accumulator of the k-th entry at its close; when parse_xml returns, every
\* entry element of the feed has its Paper, and a feed without entries gives
\* the empty sequence.
C1_OnePaperPerEntry ==
    /\ Len(responses) = Len(feed.sealed)
    /\ \A k \in 1..Len(responses) : responses[k] = feed.sealed[k].record
    /\ returned => Len(responses) = feed.entries

C1_Witness ==
    /\ returned
    /\ feed.entries = 2
    /\ Len(responses) = 2
    /\ responses[1].id = <<"y", "&">>
    /\ responses[2].id = <<"x">>

\* C2: the Paper of every entry is the Paper a parse of that entry alone
\* produces, whatever the entries before it.
C2_EntriesIsolated ==
    \A k \in 1..Len(responses) : responses[k] = feed.sealed[k].alone

\* C8: a Paper's doi, journal_ref and pdf_url are empty when its entry has
\* no doi link, no journal_ref element and no pdf link.
C8_AbsentFieldsEmpty ==
    \A k \in 1..Len(responses) :
        /\ ~feed.sealed[k].doi => responses[k].doi = <<>>
        /\ ~feed.sealed[k].journal_ref => responses[k].journal_ref = <<>>
        /\ ~feed.sealed[k].pdf => responses[k].pdf_url = <<>>

\* C9: authors, comment and categories of a Paper are the texts of the
\* entry's author/name elements, the texts of its comment elements and the
\* terms of its category elements, each in document order with repetitions
\* kept; pdf_url is the href of the entry's pdf link.
C9_ListsKeepFeedOrder ==
    /\ \A k \in 1..Len(responses) :
        /\ responses[k].authors = feed.sealed[k].authors
        /\ responses[k].comment = feed.sealed[k].comment
        /\ responses[k].categories = feed.sealed[k].categories
        /\ feed.sealed[k].pdf_href # None
            => responses[k].pdf_url = feed.sealed[k].pdf_href[1]
    /\ InEntry(open) =>
        /\ res.authors = feed.cur.authors
        /\ res.comment = feed.cur.comment
        /\ res.categories = feed.cur.categories

\* One author/name, a category given twice and one pdf link
C9_Witness ==
    /\ returned
    /\ Len(responses) = 1
    /\ responses[1].authors = <<<<"y", "&">>>>
    /\ responses[1].categories = <<Terms1, Terms1>>
    /\ responses[1].pdf_url = Href1
    /\ responses[1].doi = <<>>

\* ------------------------------------------------------------------------
\* Properties of the combinators called on an empty list
\* ------------------------------------------------------------------------

Combinators == {"and", "or", "and_not", "group"}

\* C11: a combinator called with an empty list of children is rejected: it
\* returns no expression.
C11_EmptyListRejected ==
    (op \in Combinators /\ args = <<>>) => q = NoQuery

\* ------------------------------------------------------------------------
\* Properties of a parse that fails
\* ------------------------------------------------------------------------

\* C12: when the reader hits an error at any position, parse_xml panics and
\* returns nothing, whatever it has sealed so far; it returns only at the
\* end of the document.
C12_AllOrNothing ==
    /\ feed.prev = "Err" => panicked /\ ~returned
    /\ panicked => ~returned
    /\ returned => feed.prev = "Eof"

\* Two entries are sealed when the error is hit
C12_Witness ==
    /\ feed.prev = "Err"
    /\ panicked
    /\ Len(responses) = 2
    /\ responses[1].id = <<"x">>

\* ------------------------------------------------------------------------
\* Properties of query
\* ------------------------------------------------------------------------

FetchFailed(f) == f.outcome.kind = "Err" \/ f.outcome.status # 200

\* C13: a query fetches once, the URL build_query rendered, before the
\* parser runs; after a transport failure or a response that is no success
\* the query has ended in an error and the parser does not run.
C13_OneFetchNoParseOnFailure ==
    /\ Len(fetches) <= 1
    /\ fetches # <<>> => url # None /\ fetches[1].url = url[1]
    /\ op = "parse_xml" => Len(fetches) = 1
    /\ (fetches # <<>> /\ FetchFailed(fetches[1]))
        => /\ panicked
           /\ op # "parse_xml"
           /\ ~returned

\* ------------------------------------------------------------------------
\* Properties of the abstract
\* ------------------------------------------------------------------------

NotNewline(c) == c # "\n"

\* The characters of s from its first to its last character that is not
\* whitespace, without the line breaks
Kept(s) ==
    LET inner == {i \in 1..Len(s) : s[i] \notin Whitespace}
    IN  IF inner = {} THEN <<>>
        ELSE LET lo == CHOOSE i \in inner : \A j \in inner : i <= j
                 hi == CHOOSE i \in inner : \A j \in inner : j <= i
             IN  SelectSeq([i \in 1..(hi - lo + 1) |-> s[lo + i - 1]], NotNewline)

Trimmed(a, s) ==
    /\ \A i \in 1..Len(a) : a[i] # "\n"
    /\ a # <<>> => a[1] \notin Whitespace /\ a[Len(a)] \notin Whitespace
    /\ a = Kept(s)

\* C14: the abstract of a Paper has no whitespace at its start or end and no
\* line break, and is otherwise the text of the summary element, character
\* by character.
C14_AbstractTrimmed ==
    /\ \A k \in 1..Len(responses) :
        Trimmed(responses[k].abstract_text, feed.sealed[k].summary)
    /\ InEntry(open) => Trimmed(res.abstract_text, feed.cur.summary)

C14_Witness ==
    /\ Len(responses) = 1
    /\ feed.sealed[1].summary = <<" ", "\n", "a", " ", "\n", " ", "a", "\n", " ">>
    /\ responses[1].abstract_text = <<"a", " ", " ", "a">>
    /\ feed.cur.summary = <<"\t", "a", "&", "\n", "\n", "a", "\t">>
    /\ res.abstract_text = <<"a", "&", "a">>

\* ------------------------------------------------------------------------
\* Properties of two calls of parse_xml
\* ------------------------------------------------------------------------

\* C15: whatever the order of the turns of two calls of parse_xml, each
\* returns the Papers it returns when it runs alone on its document.
C15_CallsIndependent ==
    \A i \in 1..Len(pair.out) :
        pair.out[i] # None => pair.out[i][1] = parse_xml(pair.feeds[i])

\* Both calls have returned Papers of different documents after their turns
\* alternated
C15_Witness ==
    /\ pair.out # <<>>
    /\ pair.out[1] # None
    /\ pair.out[2] # None
    /\ pair.switches >= 6
    /\ Len(pair.out[1][1]) = 2
    /\ Len(pair.out[2][1]) = 1
    /\ pair.out[2][1][1].authors = << <<"y", "&">> >>

\* ------------------------------------------------------------------------
\* Properties of the context flags
\* ------------------------------------------------------------------------

\* The flag of each field element
FlagOf ==
    [id |-> "in_id", title |-> "in_title", author |-> "in_author",
     summary |-> "in_abstract", published |-> "in_published", updated |-> "in_updated",
     comment |-> "in_comment", journal_ref |-> "in_journal_ref"]

ElementOf ==
    [id |-> "id", title |-> "title", author |-> "author", summary |-> "summary",
     published |-> "published", updated |-> "updated", comment |-> "arxiv:comment",
     journal_ref |-> "arxiv:journal_ref"]

Inside(name) == \E i \in 1..Len(open) : open[i] = name

\* C16: at every point of the scan the flag of a field element is true
\* exactly when the reader is inside that element.
C16_FlagsFollowElements ==
    \A e \in DOMAIN FlagOf : flags[FlagOf[e]] = Inside(ElementOf[e])

\* ------------------------------------------------------------------------
\* Properties of a text event
\* ------------------------------------------------------------------------

\* The field of the accumulator that holds the text of a field element
FieldOf(name) ==
    CASE name = "id" -> "id"
    [] name = "title" -> "title"
    [] name = "name" -> "authors"
    [] name = "summary" -> "abstract_text"
    [] name = "published" -> "published"
    [] name = "updated" -> "updated"
    [] name = "arxiv:comment" -> "comment"
    [] name = "arxiv:journal_ref" -> "journal_ref"
    [] OTHER -> ""

ListFields == {"authors", "comment"}

\* The reader has just delivered character data
TextRead == feed'.prev = "Text" /\ feed'.events = feed.events + 1

\* Only field f of the accumulator changes, a list by one element appended
OnlyFieldChanges(f) ==
    /\ \A g \in DOMAIN res \ {f} : res'[g] = res[g]
    /\ f \in ListFields =>
        /\ Len(res'[f]) = Len(res[f]) + 1
        /\ \A i \in 1..Len(res[f]) : res'[f][i] = res[f][i]

\* C17: a text event inside a field element of an entry changes only that
\* element's field of the accumulator; any other text event, such as text
\* between two child elements of an entry, changes no field.
C17_TextChangesOnlyItsField ==
    [][TextRead =>
        IF Inside("entry") /\ FieldOf(Top(open)) # ""
        THEN OnlyFieldChanges(FieldOf(Top(open)))
        ELSE res' = res]_vars

\* ------------------------------------------------------------------------
\* Properties of author and name
\* ------------------------------------------------------------------------

\* The reader is inside a name element that is inside an author element
NameInAuthor ==
    \E i \in 1..Len(open) : \E j \in 1..Len(open) :
        i < j /\ open[i] = "author" /\ open[j] = "name"

\* C18: in_name is true only while in_author is, and a text event appends
\* an author only inside a name element nested inside an author element.
C18_NameOnlyInsideAuthor ==
    [][/\ flags'.in_name => flags'.in_author
       /\ (TextRead /\ res'.authors # res.authors) => NameInAuthor]_vars

\* ------------------------------------------------------------------------
\* Properties of the links
\* ------------------------------------------------------------------------

HrefOrEmpty(href) == IF href = None THEN <<>> ELSE href[1]

LinksRead(paper, sum) ==
    /\ paper.pdf_url = HrefOrEmpty(sum.pdf_href)
    /\ paper.doi = HrefOrEmpty(sum.doi_href)

\* C19: pdf_url is the href of the entry's last link titled pdf and doi the
\* href of its last link titled doi, whether the links are open or
\* self-closing elements; links with another title, without a title or
\* without an href change neither.
C19_LinksByTitle ==
    /\ \A k \in 1..Len(responses) : LinksRead(responses[k], feed.sealed[k])
    /\ InEntry(open) => LinksRead(res, feed.cur)

\* Two entries: one with its pdf link open and its doi link self-closing,
\* one the other way round
C19_Witness ==
    /\ Len(responses) = 2
    /\ responses[1].pdf_url = Href1
    /\ responses[1].doi = Href1
    /\ responses[2].pdf_url = Href2
    /\ responses[2].doi = Href2

\* ------------------------------------------------------------------------
\* Properties of in_entry
\* ------------------------------------------------------------------------

\* C20: while in_entry is false no event changes the accumulator, and every
\* Paper is the Paper of the feed without what is outside its entries.
C20_NothingOutsideEntries ==
    [][/\ ~flags.in_entry => res' = res
       /\ \A k \in 1..Len(responses') : responses'[k] = feed'.sealed[k].inner]_vars

\* ------------------------------------------------------------------------
\* Properties of sealing
\* ------------------------------------------------------------------------

\* The reader has just delivered the close event of an entry
EntryClosed ==
    /\ Top(open) = "entry"
    /\ feed'.prev = "End"
    /\ feed'.events = feed.events + 1

\* C21: the result sequence changes exactly at the close of an entry, where
\* one copy of the accumulator is appended, in_entry is cleared and the
\* accumulator is reset to Paper::default(); the Papers already in it stay as
\* they are.
C21_SealedAtEntryClose ==
    [][/\ responses' # responses => EntryClosed
       /\ EntryClosed =>
            /\ responses' = Append(responses, res)
            /\ ~flags'.in_entry
            /\ res' = PaperDefault
       /\ Len(responses') >= Len(responses)
       /\ \A k \in 1..Len(responses) : responses'[k] = responses[k]]_vars

\* The second entry has just been sealed behind the first
C21_Witness ==
    /\ feed.prev = "End"
    /\ open = <<>>
    /\ Len(responses) = 2
    /\ responses[1].id = <<"x">>
    /\ responses[2].id = <<"y", "&">>
    /\ res = PaperDefault
    /\ ~flags.in_entry

\* ------------------------------------------------------------------------
\* Properties of the spaces of the URL
\* ------------------------------------------------------------------------

\* C22: the URL build_query returns contains no %20 and no space: every
\* space the caller supplied is written +.
C22_NoEncodedSpaceInUrl ==
    url # None =>
        /\ Count(url[1], <<"%", "2", "0">>) = 0
        /\ Count(url[1], <<" ">>) = 0

\* ------------------------------------------------------------------------
\* Properties of the kind of a combinator's node
\* ------------------------------------------------------------------------

KindOf == [and |-> "And", or |-> "Or", and_not |-> "AndNot", group |-> "Group"]

\* C23: and returns an And node, or an Or node, and_not an AndNot node and
\* group a Group node, for every list of children.
C23_NodeOfOwnKind ==
    op \in Combinators => q.tag = KindOf[op]

====
